---- MODULE Spec2Model ----
(***************************************************************************)
(* Model of the Conda module installer (src/main.py): the retrying GET     *)
(* (web_request), the search and channel resolution (search_module,        *)
(* fetch_module_page), the extraction and validation of the install        *)
(* command, and the pipeline of main.                                      *)
(*                                                                         *)
(* Text is a sequence of one-character strings, so that strip(), split()   *)
(* and the substring test are computed character by character.  An         *)
(* Optional value is a sequence of length 0 (None) or 1 (the value).       *)
(***************************************************************************)
EXTENDS Integers, Sequences, FiniteSets, TLC

(***************************************************************************)
(* Bounds of the model.                                                    *)
(***************************************************************************)
\* largest `retries` argument tried on web_request called on its own
MaxRetriesArg == 4
\* largest number of channel labels in a search document
MaxCands == 2
\* largest number of module links in a search document
MaxLinks == 1
\* largest number of words in a command given to validate_install_command
MaxTokens == 5
\* largest number of <code> elements in a page given to extract_install_command
MaxFrags == 3

(***************************************************************************)
(* Text literals.                                                          *)
(***************************************************************************)
S_conda_forge == <<"c", "o", "n", "d", "a", "-", "f", "o", "r", "g", "e">>
S_anaconda == <<"a", "n", "a", "c", "o", "n", "d", "a">>
S_main == <<"m", "a", "i", "n">>
S_auto == <<"a", "u", "t", "o">>
S_other == <<"o", "t", "h", "e", "r">>
S_bogus == <<"b", "o", "g", "u", "s">>
S_numpy == <<"n", "u", "m", "p", "y">>
S_conda == <<"c", "o", "n", "d", "a">>
S_install == <<"i", "n", "s", "t", "a", "l", "l">>
S_conda_install == <<"c", "o", "n", "d", "a", " ", "i", "n", "s", "t", "a", "l", "l">>
\* a channel label as the document carries it, with surrounding whitespace
L_main_padded == <<" ", "m", "a", "i", "n", "\n">>
\* texts of <code> elements
F_pip == <<"p", "i", "p", " ", "i", "n", "s", "t", "a", "l", "l", " ", "x">>
F_main == <<" ", "c", "o", "n", "d", "a", " ", "i", "n", "s", "t", "a", "l", "l", " ", "-", "c", " ", "m", "a", "i", "n", " ", "y", "\n">>
F_run == <<"r", "u", "n", " ", "c", "o", "n", "d", "a", " ", "i", "n", "s", "t", "a", "l", "l", " ", "x">>
F_short == <<"c", "o", "n", "d", "a", " ", "i", "n", "s", "t", "a", "l", "l">>

(***************************************************************************)
(* Program constants.                                                      *)
(***************************************************************************)
BASE_SEARCH_URL == <<"https://anaconda.org/search?q=">>
BASE_MODULE_URL == <<"https://anaconda.org/">>
CHANNELS == <<S_conda_forge, S_anaconda, S_main, S_auto>>
MAX_RETRIES == 3

(***************************************************************************)
(* Python values and string methods.                                       *)
(***************************************************************************)
None == <<>>
Some(x) == <<x>>

\* truth value of an Optional[str]: None and "" are false
Truthy(opt) == opt # None /\ opt[1] # <<>>

Range(s) == {s[i] : i \in 1..Len(s)}

Whitespace == {" ", "\t", "\n"}

RECURSIVE LStrip(_)
LStrip(s) == IF s # <<>> /\ Head(s) \in Whitespace THEN LStrip(Tail(s)) ELSE s

RECURSIVE RStrip(_)
RStrip(s) ==
    IF s # <<>> /\ s[Len(s)] \in Whitespace THEN RStrip(SubSeq(s, 1, Len(s) - 1)) ELSE s

\* str.strip()
Strip(s) == RStrip(LStrip(s))

\* needle in haystack
Contains(haystack, needle) ==
    \E i \in 1..(Len(haystack) - Len(needle) + 1) :
        SubSeq(haystack, i, i + Len(needle) - 1) = needle

\* str.split(): the maximal runs of non-whitespace characters, in order
RECURSIVE SplitFrom(_, _, _)
SplitFrom(s, i, word) ==
    IF i > Len(s)
    THEN IF word = <<>> THEN <<>> ELSE <<word>>
    ELSE IF s[i] \in Whitespace
         THEN (IF word = <<>> THEN <<>> ELSE <<word>>) \o SplitFrom(s, i + 1, <<>>)
         ELSE SplitFrom(s, i + 1, Append(word, s[i]))

Split(s) == SplitFrom(s, 1, <<>>)

(***************************************************************************)
(* The remote site: what a GET may bring back.  A body is the part of the  *)
(* parsed HTML the program selects from: the link elements and the channel *)
(* labels of a search page, and the texts of the <code> elements of a      *)
(* module page.                                                            *)
(***************************************************************************)
Labels == {S_other, S_conda_forge, L_main_padded, S_bogus}

LabelSeqs == UNION {[1..n -> Labels] : n \in 0..MaxCands}

SearchBodies ==
    {[links |-> l, labels |-> ls, code |-> <<>>] : l \in 0..MaxLinks, ls \in LabelSeqs}

PageBodies ==
    {[links |-> 0, labels |-> <<>>, code |-> c] :
        c \in {<<>>, <<F_pip, F_main>>, <<F_run, F_main>>, <<F_short>>}}

SearchUrl(name) == BASE_SEARCH_URL \o name

ModuleUrl(channel, name) == BASE_MODULE_URL \o channel \o <<"/">> \o name

Bodies(u) == IF SubSeq(u, 1, 1) = BASE_SEARCH_URL THEN SearchBodies ELSE PageBodies

\* the ways one attempt fails: HTTPError, RequestException, any other Exception
FailureKinds == {"HTTPError", "RequestException", "Exception"}

VARIABLES
    module_name,        \* args.module_name
    preferred_channel,  \* args.channel, Optional
    dry_run,            \* args.dry_run
    pc,                 \* position of the program
    caller,             \* who called web_request: "search", "probe" or "direct"
    url,                \* web_request: url
    retries,            \* web_request: retries
    attempt,            \* web_request: loop variable
    lastErr,            \* web_request: the exception the last attempt raised
    trace,              \* the GETs and sleeps of the current web_request call
    resp,               \* the value web_request returned, Optional
    module_links,       \* fetch_module_page: number of selected links
    module_channels,    \* fetch_module_page: texts of the selected labels
    channels,           \* fetch_module_page: the priority list
    idx,                \* fetch_module_page: position in module_channels
    result,             \* main: what fetch_module_page returned, Optional
    install_command,    \* main: what extract_install_command returned, Optional
    accepted,           \* commands validate_install_command returned True for
    surfaced,           \* the commands printed or handed to subprocess.run
    exitCode,           \* exit status of the process, -1 while running
    reason,             \* the last error the program logged
    calls,              \* the finished web_request calls, in order
    nGets               \* number of GET attempts so far

vars == <<module_name, preferred_channel, dry_run, pc, caller, url, retries, attempt,
          lastErr, trace, resp, module_links, module_channels, channels, idx, result,
          install_command, accepted, surfaced, exitCode, reason, calls, nGets>>

argVars == <<module_name, preferred_channel, dry_run>>
fmpVars == <<module_links, module_channels, channels, idx>>
mainVars == <<result, install_command, accepted, surfaced, exitCode, reason>>

(***************************************************************************)
(* web_request                                                             *)
(***************************************************************************)
GetEvent(i, ok, got) == [ev |-> "get", attempt |-> i, ok |-> ok, t |-> 0, got |-> got]
SleepEvent(i, t) == [ev |-> "sleep", attempt |-> i, ok |-> FALSE, t |-> t, got |-> None]

\* a backoff after the last attempt too
ShouldSleep_always(a, r) == a < r

\* line 53
ShouldSleep(a, r) == a < r - 1

\* the exponent is the number of the next attempt
sleep_time_next(a) == 2 ^ (a + 1)

\* line 54
sleep_time(a) == 2 ^ a

\* one attempt more than asked for
InRange_inclusive(a, r) == a <= r

\* line 40: range(retries) still has a value for the loop variable
InRange(a, r) == a < r

\* lines 40-45: one attempt that succeeds; the response is returned at once
WrGetOk ==
    /\ pc = "wr_loop"
    /\ InRange(attempt, retries)
    /\ \E body \in Bodies(url) :
        /\ resp' = Some(body)
        /\ trace' = Append(trace, GetEvent(attempt, TRUE, Some(body)))
    /\ calls' = Append(calls, [url |-> url, ok |-> TRUE, gets |-> attempt + 1])
    /\ nGets' = nGets + 1
    /\ pc' = "wr_done"
    /\ UNCHANGED <<argVars, fmpVars, mainVars, caller, url, retries, attempt, lastErr>>

\* only the exceptions of requests are caught: any other one leaves the function
WrGetFail_uncaught ==
    /\ pc = "wr_loop"
    /\ InRange(attempt, retries)
    /\ \E kind \in FailureKinds :
        /\ lastErr' = kind
        /\ pc' = IF kind = "Exception" THEN "raised" ELSE "wr_except"
    /\ trace' = Append(trace, GetEvent(attempt, FALSE, None))
    /\ nGets' = nGets + 1
    /\ UNCHANGED <<argVars, fmpVars, mainVars, caller, url, retries, attempt, resp, calls>>

\* lines 40-51: one attempt that raises; every exception is caught and logged
WrGetFail ==
    /\ pc = "wr_loop"
    /\ InRange(attempt, retries)
    /\ \E kind \in FailureKinds : lastErr' = kind
    /\ trace' = Append(trace, GetEvent(attempt, FALSE, None))
    /\ nGets' = nGets + 1
    /\ pc' = "wr_except"
    /\ UNCHANGED <<argVars, fmpVars, mainVars, caller, url, retries, attempt, resp, calls>>

\* lines 53-56, and back to the loop head
WrBackoff ==
    /\ pc = "wr_except"
    /\ trace' = IF ShouldSleep(attempt, retries)
                THEN Append(trace, SleepEvent(attempt, sleep_time(attempt)))
                ELSE trace
    /\ attempt' = attempt + 1
    /\ lastErr' = "none"
    /\ pc' = "wr_loop"
    /\ UNCHANGED <<argVars, fmpVars, mainVars, caller, url, retries, resp, calls, nGets>>

\* line 57: the loop is over
WrExhausted ==
    /\ pc = "wr_loop"
    /\ ~InRange(attempt, retries)
    /\ resp' = None
    /\ calls' = Append(calls, [url |-> url, ok |-> FALSE, gets |-> attempt])
    /\ pc' = "wr_done"
    /\ UNCHANGED <<argVars, fmpVars, mainVars, caller, url, retries, attempt, lastErr,
                   trace, nGets>>

(***************************************************************************)
(* search_module and fetch_module_page                                     *)
(***************************************************************************)
\* any preferred channel is put in front, known or not
EffectiveChannels_unchecked(pref) ==
    IF Truthy(pref) THEN <<pref[1]>> \o CHANNELS ELSE CHANNELS

\* a known preferred channel becomes the only channel
EffectiveChannels_only(pref) ==
    IF Truthy(pref) /\ pref[1] \in Range(CHANNELS) THEN <<pref[1]>> ELSE CHANNELS

\* lines 114-118
EffectiveChannels(pref) ==
    IF Truthy(pref) /\ pref[1] \in Range(CHANNELS) THEN <<pref[1]>> \o CHANNELS ELSE CHANNELS

\* the loop runs over the priority list instead of the labels of the document
ChannelAt_priority(labels, i) == CHANNELS[i]

\* line 122
ChannelAt(labels, i) == Strip(labels[i])

\* every label is taken
IsAllowed_any(channel, chs) == TRUE

\* line 123
IsAllowed(channel, chs) == channel \in Range(chs)

\* both selections must be empty
NoCandidates_both(links, labels) == links = 0 /\ labels = <<>>

\* line 110
NoCandidates(links, labels) == links = 0 \/ labels = <<>>

\* lines 198-206, 102, 75-76: the arguments are checked and the search is requested
MainStart ==
    /\ pc = "main"
    /\ IF module_name = <<>>
       THEN /\ reason' = "no_module_name"
            /\ exitCode' = 1
            /\ pc' = "exited"
            /\ UNCHANGED <<caller, url, retries, attempt, trace>>
       ELSE /\ caller' = "search"
            /\ url' = SearchUrl(module_name)
            /\ retries' = MAX_RETRIES
            /\ attempt' = 0
            /\ trace' = <<>>
            /\ pc' = "wr_loop"
            /\ UNCHANGED <<reason, exitCode>>
    /\ UNCHANGED <<argVars, fmpVars, result, install_command, accepted, surfaced, lastErr,
                   resp, calls, nGets>>

\* a failed search is answered by probing the default channels
SearchReturn_fallback ==
    /\ pc = "wr_done"
    /\ caller = "search"
    /\ IF resp = None
       THEN /\ module_links' = 1
            /\ module_channels' = CHANNELS
            /\ channels' = EffectiveChannels(preferred_channel)
            /\ idx' = 1
            /\ pc' = "fmp_loop"
            /\ UNCHANGED <<reason, exitCode>>
       ELSE /\ module_links' = resp[1].links
            /\ module_channels' = resp[1].labels
            /\ IF NoCandidates(resp[1].links, resp[1].labels)
               THEN /\ reason' = "not_from_any_channel"
                    /\ exitCode' = 1
                    /\ pc' = "exited"
                    /\ UNCHANGED <<channels, idx>>
               ELSE /\ channels' = EffectiveChannels(preferred_channel)
                    /\ idx' = 1
                    /\ pc' = "fmp_loop"
                    /\ UNCHANGED <<reason, exitCode>>
    /\ UNCHANGED <<argVars, result, install_command, accepted, surfaced, caller, url,
                   retries, attempt, lastErr, trace, resp, calls, nGets>>

\* lines 77-81, 103-118 (and 207-208 when fetch_module_page returns None)
SearchReturn ==
    /\ pc = "wr_done"
    /\ caller = "search"
    /\ IF resp = None
       THEN /\ reason' = "search_failed"
            /\ exitCode' = 1
            /\ pc' = "exited"
            /\ UNCHANGED fmpVars
       ELSE /\ module_links' = resp[1].links
            /\ module_channels' = resp[1].labels
            /\ IF NoCandidates(resp[1].links, resp[1].labels)
               THEN /\ reason' = "not_from_any_channel"
                    /\ exitCode' = 1
                    /\ pc' = "exited"
                    /\ UNCHANGED <<channels, idx>>
               ELSE /\ channels' = EffectiveChannels(preferred_channel)
                    /\ idx' = 1
                    /\ pc' = "fmp_loop"
                    /\ UNCHANGED <<reason, exitCode>>
    /\ UNCHANGED <<argVars, result, install_command, accepted, surfaced, caller, url,
                   retries, attempt, lastErr, trace, resp, calls, nGets>>

\* lines 121-123: a label that is not in the priority list is passed over
FmpSkip ==
    /\ pc = "fmp_loop"
    /\ idx <= Len(module_channels)
    /\ ~IsAllowed(ChannelAt(module_channels, idx), channels)
    /\ idx' = idx + 1
    /\ UNCHANGED <<argVars, mainVars, module_links, module_channels, channels, pc, caller,
                   url, retries, attempt, lastErr, trace, resp, calls, nGets>>

\* module pages are given twice the attempts
FmpProbe_patient ==
    /\ pc = "fmp_loop"
    /\ idx <= Len(module_channels)
    /\ IsAllowed(ChannelAt(module_channels, idx), channels)
    /\ caller' = "probe"
    /\ url' = ModuleUrl(ChannelAt(module_channels, idx), module_name)
    /\ retries' = 2 * MAX_RETRIES
    /\ attempt' = 0
    /\ trace' = <<>>
    /\ pc' = "wr_loop"
    /\ UNCHANGED <<argVars, fmpVars, mainVars, lastErr, resp, calls, nGets>>

\* lines 121-125: the module page of an allowed label is requested
FmpProbe ==
    /\ pc = "fmp_loop"
    /\ idx <= Len(module_channels)
    /\ IsAllowed(ChannelAt(module_channels, idx), channels)
    /\ caller' = "probe"
    /\ url' = ModuleUrl(ChannelAt(module_channels, idx), module_name)
    /\ retries' = MAX_RETRIES
    /\ attempt' = 0
    /\ trace' = <<>>
    /\ pc' = "wr_loop"
    /\ UNCHANGED <<argVars, fmpVars, mainVars, lastErr, resp, calls, nGets>>

\* the first page that cannot be fetched ends the resolution
ProbeReturn_abort ==
    /\ pc = "wr_done"
    /\ caller = "probe"
    /\ IF resp # None
       THEN /\ result' = Some([page |-> resp[1],
                               channel |-> ChannelAt(module_channels, idx)])
            /\ pc' = "extract"
            /\ UNCHANGED <<exitCode, reason>>
       ELSE /\ reason' = "not_from_preferred_channels"
            /\ exitCode' = 1
            /\ pc' = "exited"
            /\ UNCHANGED result
    /\ UNCHANGED <<argVars, fmpVars, install_command, accepted, surfaced, caller, url,
                   retries, attempt, lastErr, trace, resp, calls, nGets>>

\* lines 126-128, 207-210: the page came, or the loop goes on
ProbeReturn ==
    /\ pc = "wr_done"
    /\ caller = "probe"
    /\ IF resp # None
       THEN /\ result' = Some([page |-> resp[1],
                               channel |-> ChannelAt(module_channels, idx)])
            /\ pc' = "extract"
            /\ UNCHANGED idx
       ELSE /\ idx' = idx + 1
            /\ pc' = "fmp_loop"
            /\ UNCHANGED result
    /\ UNCHANGED <<argVars, module_links, module_channels, channels, install_command,
                   accepted, surfaced, exitCode, reason, caller, url, retries, attempt,
                   lastErr, trace, resp, calls, nGets>>

\* lines 130-131, 207-208: no label is left
FmpGiveUp ==
    /\ pc = "fmp_loop"
    /\ idx > Len(module_channels)
    /\ reason' = "not_from_preferred_channels"
    /\ exitCode' = 1
    /\ pc' = "exited"
    /\ UNCHANGED <<argVars, fmpVars, result, install_command, accepted, surfaced, caller,
                   url, retries, attempt, lastErr, trace, resp, calls, nGets>>

(***************************************************************************)
(* extract_install_command, validate_install_command                       *)
(***************************************************************************)
\* fragments whose command would be rejected are passed over
extract_install_command_usable(page) ==
    LET usable == {i \in 1..Len(page.code) :
                      /\ Contains(page.code[i], S_conda_install)
                      /\ Len(Split(page.code[i])) >= 3
                      /\ Split(page.code[i])[1] = S_conda
                      /\ Split(page.code[i])[2] = S_install}
    IN  IF usable = {}
        THEN None
        ELSE Some(Strip(page.code[CHOOSE i \in usable : \A j \in usable : i <= j]))

\* the last fragment with the marker is taken
extract_install_command_last(page) ==
    LET marked == {i \in 1..Len(page.code) : Contains(page.code[i], S_conda_install)}
    IN  IF marked = {}
        THEN None
        ELSE Some(Strip(page.code[CHOOSE i \in marked : \A j \in marked : i >= j]))

\* lines 147-153
extract_install_command(page) ==
    LET marked == {i \in 1..Len(page.code) : Contains(page.code[i], S_conda_install)}
    IN  IF marked = {}
        THEN None
        ELSE Some(Strip(page.code[CHOOSE i \in marked : \A j \in marked : i <= j]))

\* two tokens are enough
validate_install_command_two(command) ==
    LET parts == Split(command)
    IN  IF Len(parts) < 2
        THEN FALSE
        ELSE IF parts[1] # S_conda \/ parts[2] # S_install
             THEN FALSE
             ELSE TRUE

\* lines 169-176
validate_install_command(command) ==
    LET parts == Split(command)
    IN  IF Len(parts) < 3
        THEN FALSE
        ELSE IF parts[1] # S_conda \/ parts[2] # S_install
             THEN FALSE
             ELSE TRUE

(***************************************************************************)
(* main, after fetch_module_page                                           *)
(***************************************************************************)
\* the extracted command goes to the hand-off without validation
MainExtract_unvalidated ==
    /\ pc = "extract"
    /\ install_command' = extract_install_command(result[1].page)
    /\ IF ~Truthy(install_command')
       THEN /\ reason' = "no_command"
            /\ exitCode' = 1
            /\ pc' = "exited"
       ELSE /\ pc' = "handoff"
            /\ UNCHANGED <<reason, exitCode>>
    /\ UNCHANGED <<argVars, fmpVars, result, accepted, surfaced, caller, url, retries,
                   attempt, lastErr, trace, resp, calls, nGets>>

\* lines 211-213
MainExtract ==
    /\ pc = "extract"
    /\ install_command' = extract_install_command(result[1].page)
    /\ IF ~Truthy(install_command')
       THEN /\ reason' = "no_command"
            /\ exitCode' = 1
            /\ pc' = "exited"
       ELSE /\ pc' = "validate"
            /\ UNCHANGED <<reason, exitCode>>
    /\ UNCHANGED <<argVars, fmpVars, result, accepted, surfaced, caller, url, retries,
                   attempt, lastErr, trace, resp, calls, nGets>>

\* a rejected command sends the resolver on to the next label
MainValidate_fallback ==
    /\ pc = "validate"
    /\ IF ~validate_install_command(install_command[1])
       THEN /\ idx' = idx + 1
            /\ pc' = "fmp_loop"
            /\ UNCHANGED accepted
       ELSE /\ accepted' = accepted \cup {install_command[1]}
            /\ pc' = "handoff"
            /\ UNCHANGED idx
    /\ UNCHANGED <<argVars, module_links, module_channels, channels, result,
                   install_command, surfaced, exitCode, reason, caller, url, retries,
                   attempt, lastErr, trace, resp, calls, nGets>>

\* lines 215-219
MainValidate ==
    /\ pc = "validate"
    /\ IF ~validate_install_command(install_command[1])
       THEN /\ reason' = "invalid_command"
            /\ exitCode' = 1
            /\ pc' = "exited"
            /\ UNCHANGED accepted
       ELSE /\ accepted' = accepted \cup {install_command[1]}
            /\ pc' = "handoff"
            /\ UNCHANGED <<reason, exitCode>>
    /\ UNCHANGED <<argVars, fmpVars, result, install_command, surfaced, caller, url,
                   retries, attempt, lastErr, trace, resp, calls, nGets>>

\* lines 220-221: the command is printed, and main returns
MainDryRun ==
    /\ pc = "handoff"
    /\ dry_run
    /\ surfaced' = Append(surfaced, [how |-> "print", command |-> install_command[1],
                                     argv |-> <<>>, rc |-> "printed"])
    /\ exitCode' = 0
    /\ pc' = "exited"
    /\ UNCHANGED <<argVars, fmpVars, result, install_command, accepted, reason, caller,
                   url, retries, attempt, lastErr, trace, resp, calls, nGets>>

\* what subprocess.run(..., check=True) may do: return, raise CalledProcessError,
\* or raise another error (no such executable), which main does not catch
RunOutcomes == {"zero", "nonzero", "oserror"}

\* the exit status of the installer is not looked at
ExitAfterRun_unchecked(rc) == IF rc = "oserror" THEN 1 ELSE 0

\* lines 224-228: main returns (status 0) only when the command exited with zero
ExitAfterRun(rc) == IF rc = "zero" THEN 0 ELSE 1

\* the command is executed whatever the mode
MainExecute_always ==
    /\ pc = "handoff"
    /\ \E rc \in RunOutcomes :
        /\ surfaced' = Append(surfaced, [how |-> "run", command |-> install_command[1],
                                         argv |-> Split(install_command[1]), rc |-> rc])
        /\ exitCode' = ExitAfterRun(rc)
        /\ reason' = CASE rc = "zero" -> reason
                       [] rc = "nonzero" -> "install_failed"
                       [] OTHER -> "uncaught_error"
    /\ pc' = "exited"
    /\ UNCHANGED <<argVars, fmpVars, result, install_command, accepted, caller, url,
                   retries, attempt, lastErr, trace, resp, calls, nGets>>

\* lines 222-228
MainExecute ==
    /\ pc = "handoff"
    /\ ~dry_run
    /\ \E rc \in RunOutcomes :
        /\ surfaced' = Append(surfaced, [how |-> "run", command |-> install_command[1],
                                         argv |-> Split(install_command[1]), rc |-> rc])
        /\ exitCode' = ExitAfterRun(rc)
        /\ reason' = CASE rc = "zero" -> reason
                       [] rc = "nonzero" -> "install_failed"
                       [] OTHER -> "uncaught_error"
    /\ pc' = "exited"
    /\ UNCHANGED <<argVars, fmpVars, result, install_command, accepted, caller, url,
                   retries, attempt, lastErr, trace, resp, calls, nGets>>

(***************************************************************************)
(* The program: main from its first line.                                  *)
(***************************************************************************)
Init ==
    /\ module_name \in {<<>>, S_numpy}
    /\ preferred_channel \in {None, Some(<<>>), Some(S_conda_forge), Some(S_main), Some(S_bogus)}
    /\ dry_run \in BOOLEAN
    /\ pc = "main"
    /\ caller = "none"
    /\ url = <<>>
    /\ retries = 0
    /\ attempt = 0
    /\ lastErr = "none"
    /\ trace = <<>>
    /\ resp = None
    /\ module_links = 0
    /\ module_channels = <<>>
    /\ channels = <<>>
    /\ idx = 0
    /\ result = None
    /\ install_command = None
    /\ accepted = {}
    /\ surfaced = <<>>
    /\ exitCode = -1
    /\ reason = "none"
    /\ calls = <<>>
    /\ nGets = 0

Next ==
    \/ MainStart
    \/ WrGetOk
    \/ WrGetFail
    \/ WrBackoff
    \/ WrExhausted
    \/ SearchReturn
    \/ FmpSkip
    \/ FmpProbe
    \/ ProbeReturn
    \/ FmpGiveUp
    \/ MainExtract
    \/ MainValidate
    \/ MainDryRun
    \/ MainExecute

Spec == Init /\ [][Next]_vars

(***************************************************************************)
(* The program as it is run: one thread that takes its next step as long   *)
(* as it has one (every GET returns or times out, every sleep ends, the    *)
(* installer process ends).                                                *)
(***************************************************************************)
LiveSpec == Init /\ [][Next]_vars /\ WF_vars(Next)

(***************************************************************************)
(* web_request called on its own, with any retry count.                    *)
(***************************************************************************)
FetchInit ==
    /\ module_name = S_numpy
    /\ preferred_channel = None
    /\ dry_run = TRUE
    /\ pc = "wr_loop"
    /\ caller = "direct"
    /\ url \in {SearchUrl(S_numpy), ModuleUrl(S_main, S_numpy)}
    /\ retries \in 0..MaxRetriesArg
    /\ attempt = 0
    /\ lastErr = "none"
    /\ trace = <<>>
    /\ resp = None
    /\ module_links = 0
    /\ module_channels = <<>>
    /\ channels = <<>>
    /\ idx = 0
    /\ result = None
    /\ install_command = None
    /\ accepted = {}
    /\ surfaced = <<>>
    /\ exitCode = -1
    /\ reason = "none"
    /\ calls = <<>>
    /\ nGets = 0

FetchNext == WrGetOk \/ WrGetFail \/ WrBackoff \/ WrExhausted

FetchSpec == FetchInit /\ [][FetchNext]_vars

(***************************************************************************)
(* validate_install_command called on its own, on commands made of up to   *)
(* MaxTokens words, written with single blanks or with surrounding and     *)
(* repeated whitespace.                                                    *)
(***************************************************************************)
S_pip == <<"p", "i", "p">>
S_dash_c == <<"-", "c">>

Words == {S_conda, S_install, S_pip, S_dash_c, S_conda_forge, S_numpy}

WordSeqs == UNION {[1..n -> Words] : n \in 0..MaxTokens}

RECURSIVE Render(_, _)
Render(ws, sep) ==
    IF ws = <<>> THEN <<>>
    ELSE IF Len(ws) = 1 THEN ws[1]
    ELSE ws[1] \o sep \o Render(Tail(ws), sep)

Commands ==
    {Render(ws, <<" ">>) : ws \in WordSeqs}
        \cup {<<"\t">> \o Render(ws, <<" ", " ">>) \o <<"\n">> : ws \in WordSeqs}

ValidateInit ==
    /\ module_name = S_numpy
    /\ preferred_channel = None
    /\ dry_run = TRUE
    /\ pc = "validate"
    /\ caller = "probe"
    /\ url = ModuleUrl(S_main, S_numpy)
    /\ retries = MAX_RETRIES
    /\ attempt = 0
    /\ lastErr = "none"
    /\ trace = <<>>
    /\ resp = None
    /\ module_links = 1
    /\ module_channels = <<S_main>>
    /\ channels = CHANNELS
    /\ idx = 1
    /\ install_command \in {Some(c) : c \in Commands}
    /\ result = Some([page |-> [links |-> 0, labels |-> <<>>, code |-> install_command],
                      channel |-> S_main])
    /\ accepted = {}
    /\ surfaced = <<>>
    /\ exitCode = -1
    /\ reason = "none"
    /\ calls = <<>>
    /\ nGets = 0

ValidateNext == MainValidate

ValidateSpec == ValidateInit /\ [][ValidateNext]_vars

(***************************************************************************)
(* extract_install_command called on its own, on pages of up to MaxFrags   *)
(* <code> elements.                                                        *)
(***************************************************************************)
\* the marker inside a longer word, and the two words with a wider gap
F_mini == <<"m", "i", "n", "i", "c", "o", "n", "d", "a", " ", "i", "n", "s", "t", "a", "l", "l", " ", "z">>
F_gap == <<"c", "o", "n", "d", "a", " ", " ", "i", "n", "s", "t", "a", "l", "l", " ", "q">>

Fragments == {F_pip, F_main, F_run, F_short, F_mini, F_gap}

FragmentSeqs == UNION {[1..n -> Fragments] : n \in 0..MaxFrags}

ExtractInit ==
    /\ module_name = S_numpy
    /\ preferred_channel = None
    /\ dry_run = TRUE
    /\ pc = "extract"
    /\ caller = "probe"
    /\ url = ModuleUrl(S_main, S_numpy)
    /\ retries = MAX_RETRIES
    /\ attempt = 0
    /\ lastErr = "none"
    /\ trace = <<>>
    /\ resp = None
    /\ module_links = 1
    /\ module_channels = <<S_main>>
    /\ channels = CHANNELS
    /\ idx = 1
    /\ result \in {Some([page |-> [links |-> 0, labels |-> <<>>, code |-> c],
                         channel |-> S_main]) : c \in FragmentSeqs}
    /\ install_command = None
    /\ accepted = {}
    /\ surfaced = <<>>
    /\ exitCode = -1
    /\ reason = "none"
    /\ calls = <<>>
    /\ nGets = 0

ExtractNext == MainExtract

ExtractSpec == ExtractInit /\ [][ExtractNext]_vars

(***************************************************************************)
(* Measures of the trace of one web_request call.                          *)
(***************************************************************************)
GetsOf(tr) == SelectSeq(tr, LAMBDA e : e.ev = "get")

SleepsOf(tr) == SelectSeq(tr, LAMBDA e : e.ev = "sleep")

RECURSIVE TotalSleep(_)
TotalSleep(tr) ==
    IF tr = <<>> THEN 0
    ELSE (IF Head(tr).ev = "sleep" THEN Head(tr).t ELSE 0) + TotalSleep(Tail(tr))

AllFailed(tr) == \A i \in 1..Len(tr) : ~tr[i].ok

\* 2^0 + 2^1 + ... + 2^n, and 0 when n < 0
RECURSIVE GeometricSum(_)
GeometricSum(n) == IF n < 0 THEN 0 ELSE 2 * GeometricSum(n - 1) + 1

(***************************************************************************)
(* C1.  For every retry count r >= 1, a web_request call in which every    *)
(* attempt fails makes exactly r GET attempts, sleeps 2^0 + ... + 2^(r-2)  *)
(* time units in total (0 when r = 1), and only then returns None.         *)
(***************************************************************************)
C1_PermanentFailure ==
    (pc = "wr_done" /\ retries >= 1 /\ AllFailed(trace)) =>
        /\ resp = None
        /\ Len(GetsOf(trace)) = retries
        /\ TotalSleep(trace) = GeometricSum(retries - 2)
        /\ Len(SleepsOf(trace)) = retries - 1

C1_Witness ==
    /\ pc = "wr_done"
    /\ retries = 3
    /\ resp = None
    /\ Len(GetsOf(trace)) = 3
    /\ TotalSleep(trace) = 3

(***************************************************************************)
(* C2.  web_request returns the first successful response at once: if      *)
(* attempt k (counted from 0, k < r) is the first to succeed, exactly k+1  *)
(* attempts are made, nothing follows the success in the trace, and that   *)
(* response is the value returned; None is returned if and only if all r   *)
(* attempts failed.                                                        *)
(***************************************************************************)
C2_FirstSuccessReturned ==
    /\ \A i \in 1..Len(trace) :
          trace[i].ok =>
            /\ i = Len(trace)
            /\ pc = "wr_done"
            /\ resp = trace[i].got
            /\ trace[i].attempt < retries
            /\ Len(GetsOf(trace)) = trace[i].attempt + 1
    /\ pc = "wr_done" =>
          /\ resp # None => (trace # <<>> /\ trace[Len(trace)].ok)
          /\ resp = None <=>
                (AllFailed(trace) /\ Len(GetsOf(trace)) = (IF retries > 0 THEN retries ELSE 0))

C2_Witness ==
    /\ pc = "wr_done"
    /\ retries = 3
    /\ resp # None
    /\ Len(GetsOf(trace)) = 2
    /\ trace[Len(trace)].ok
    /\ trace[Len(trace)].attempt = 1

(***************************************************************************)
(* Measures of a run of main.                                              *)
(***************************************************************************)
\* the finished calls on module pages: every call after the search
ProbeCalls == SubSeq(calls, 2, Len(calls))

InFetcher == pc \in {"wr_loop", "wr_except", "wr_done"}

\* the search is over and the document has been read (lines 107-108)
DocumentRead == Len(calls) >= 1 /\ calls[1].ok /\ ~(caller = "search" /\ pc = "wr_done")

\* the positions among the first n labels whose trimmed text is in the list chs
AllowedPositions(labels, chs, n) ==
    {i \in 1..n : i <= Len(labels) /\ \E j \in 1..Len(chs) : chs[j] = Strip(labels[i])}

\* the elements of a set of positions, in ascending order
RECURSIVE Ascending(_)
Ascending(S) ==
    IF S = {} THEN <<>>
    ELSE LET m == CHOOSE i \in S : \A j \in S : i <= j
         IN  <<m>> \o Ascending(S \ {m})

\* the module URLs of the allowed labels among the first n, in document order
ExpectedProbes(labels, chs, n) ==
    LET pos == Ascending(AllowedPositions(labels, chs, n))
    IN  [k \in 1..Len(pos) |-> BASE_MODULE_URL \o Strip(labels[pos[k]]) \o <<"/">> \o module_name]

UrlsOf(cs) == [k \in 1..Len(cs) |-> cs[k].url]

\* the GET attempts of the first n finished calls
RECURSIVE GetsUpTo(_, _)
GetsUpTo(cs, n) == IF n <= 0 THEN 0 ELSE cs[n].gets + GetsUpTo(cs, n - 1)

(***************************************************************************)
(* C3.  The resolver walks the channel labels in document order, passes    *)
(* over without any fetch every label whose trimmed text is not in the     *)
(* priority list, probes each allowed one in turn, and returns the first   *)
(* allowed one whose fetch succeeds as (page, channel).  For the labels    *)
(* "other", "conda-forge" and the preferred channel "conda-forge" it       *)
(* returns "conda-forge" and never fetches a page for "other".             *)
(***************************************************************************)
C3_DocumentOrder ==
    /\ pc = "fmp_loop" =>
          /\ UrlsOf(ProbeCalls) = ExpectedProbes(module_channels, channels, idx - 1)
          /\ \A k \in 1..Len(ProbeCalls) : ~ProbeCalls[k].ok
    /\ (caller = "probe" /\ pc \in {"wr_loop", "wr_except"}) =>
          /\ UrlsOf(ProbeCalls) = ExpectedProbes(module_channels, channels, idx - 1)
          /\ Append(UrlsOf(ProbeCalls), url) = ExpectedProbes(module_channels, channels, idx)
          /\ \A k \in 1..Len(ProbeCalls) : ~ProbeCalls[k].ok
    /\ result # None =>
          /\ UrlsOf(ProbeCalls) = ExpectedProbes(module_channels, channels, idx)
          /\ idx \in AllowedPositions(module_channels, channels, idx)
          /\ \A k \in 1..Len(ProbeCalls) : ProbeCalls[k].ok <=> k = Len(ProbeCalls)
          /\ result[1].channel = Strip(module_channels[idx])
          /\ Some(result[1].page) = trace[Len(trace)].got
    /\ reason = "not_from_preferred_channels" =>
          /\ UrlsOf(ProbeCalls) =
                ExpectedProbes(module_channels, channels, Len(module_channels))
          /\ \A k \in 1..Len(ProbeCalls) : ~ProbeCalls[k].ok
    /\ (preferred_channel = Some(S_conda_forge)
            /\ module_channels = <<S_other, S_conda_forge>>) =>
          /\ \A k \in 1..Len(calls) : calls[k].url # ModuleUrl(S_other, module_name)
          /\ url # ModuleUrl(S_other, module_name)
          /\ result # None => result[1].channel = S_conda_forge

C3_Witness ==
    /\ preferred_channel = Some(S_conda_forge)
    /\ module_channels = <<S_other, S_conda_forge>>
    /\ result # None
    /\ result[1].channel = S_conda_forge
    /\ Len(calls) = 2

(***************************************************************************)
(* C4.  A preferred channel outside the default set (such as "bogus") is   *)
(* ignored: the priority list is exactly conda-forge, anaconda, main,      *)
(* auto; a label with the preferred value is never probed; and the probes  *)
(* are those made with no preferred channel.                               *)
(***************************************************************************)
C4_UnknownPreferredIgnored ==
    (/\ preferred_channel # None
     /\ \A j \in 1..Len(CHANNELS) : CHANNELS[j] # preferred_channel[1]
     /\ DocumentRead
     /\ module_links # 0
     /\ module_channels # <<>>) =>
        /\ channels = <<S_conda_forge, S_anaconda, S_main, S_auto>>
        /\ \A k \in 1..Len(calls) :
              calls[k].url # ModuleUrl(preferred_channel[1], module_name)
        /\ url # ModuleUrl(preferred_channel[1], module_name)
        /\ \E n \in 0..Len(module_channels) :
              UrlsOf(ProbeCalls) =
                  ExpectedProbes(module_channels, <<S_conda_forge, S_anaconda, S_main, S_auto>>, n)

C4_Witness ==
    /\ preferred_channel = Some(S_bogus)
    /\ module_channels = <<S_bogus, S_conda_forge>>
    /\ module_links # 0
    /\ result # None
    /\ result[1].channel = S_conda_forge
    /\ Len(calls) = 2

(***************************************************************************)
(* C5.  An install command is printed (dry run) or handed to the process   *)
(* execution only after validate_install_command has returned true for    *)
(* that same command string; no path reaches the hand-off with a command   *)
(* that was not validated or was rejected.                                 *)
(***************************************************************************)
C5_SurfacedOnlyValidated ==
    /\ \A i \in 1..Len(surfaced) :
          /\ surfaced[i].command \in accepted
          /\ install_command = Some(surfaced[i].command)
          /\ surfaced[i].how = "run" => surfaced[i].argv = Split(surfaced[i].command)
    /\ pc = "handoff" => (install_command # None /\ install_command[1] \in accepted)
    /\ \A c \in accepted :
          LET parts == Split(c)
          IN  Len(parts) >= 3 /\ parts[1] = S_conda /\ parts[2] = S_install

C5_Witness ==
    /\ Len(surfaced) = 1
    /\ surfaced[1].how = "run"
    /\ surfaced[1].command = Strip(F_main)
    /\ surfaced[1].command \in accepted

(***************************************************************************)
(* C6, as the specification states it.  Once any web_request call has      *)
(* exhausted its retries, no further GET attempt is made and the run ends  *)
(* in failure.                                                             *)
(***************************************************************************)
C6_AbortOnAnyExhaustion ==
    \A i \in 1..Len(calls) :
        ~calls[i].ok =>
            /\ nGets = GetsUpTo(calls, i)
            /\ pc = "exited" => exitCode = 1

(***************************************************************************)
(* C6, amended.  Once web_request has exhausted its retries on the search  *)
(* URL, or a later stage has failed its own check (no candidates, no       *)
(* allowed channel left, no command, invalid command, failed execution),   *)
(* the run ends in failure at once and no further GET attempt is made.     *)
(* A web_request call that exhausts its retries on the module page of a    *)
(* candidate does not end the run: the resolver goes on to the next        *)
(* allowed label of the document, and reports failure only when every      *)
(* allowed label has been probed without success.                          *)
(***************************************************************************)
C6_AbortOrNextCandidate ==
    /\ (Len(calls) >= 1 /\ ~calls[1].ok) =>
          /\ Len(calls) = 1
          /\ nGets = calls[1].gets
          /\ pc \in {"wr_done", "exited"}
          /\ pc = "exited" => (exitCode = 1 /\ reason = "search_failed")
    /\ reason # "none" =>
          /\ pc = "exited"
          /\ exitCode = 1
          /\ nGets = GetsUpTo(calls, Len(calls))
    /\ \A i \in 2..Len(calls) :
          (~calls[i].ok /\ pc = "exited" /\ result = None) =>
              /\ reason = "not_from_preferred_channels"
              /\ Len(ProbeCalls) =
                    Cardinality(AllowedPositions(module_channels, channels, Len(module_channels)))
              /\ \A k \in 1..Len(ProbeCalls) : ~ProbeCalls[k].ok

C6_Witness ==
    /\ Len(calls) = 3
    /\ ~calls[2].ok
    /\ calls[3].ok
    /\ nGets > GetsUpTo(calls, 2)
    /\ pc = "exited"
    /\ exitCode = 0

(***************************************************************************)
(* C7.  If the search document yields no candidates (no link or no channel *)
(* label), the run fails with the "not available from any channel" outcome *)
(* and exit code 1, and makes no GET attempt on a module page.             *)
(***************************************************************************)
C7_NoSearchResults ==
    /\ (caller = "search" /\ pc = "wr_done" /\ resp # None
            /\ (resp[1].links = 0 \/ resp[1].labels = <<>>)) =>
          (Len(calls) = 1 /\ nGets = calls[1].gets)
    /\ (DocumentRead /\ (module_links = 0 \/ module_channels = <<>>)) =>
          /\ pc = "exited"
          /\ exitCode = 1
          /\ reason = "not_from_any_channel"
          /\ Len(calls) = 1
          /\ nGets = calls[1].gets
          /\ result = None

C7_Witness ==
    /\ pc = "exited"
    /\ DocumentRead
    /\ module_links = 0
    /\ module_channels = <<S_conda_forge>>
    /\ reason = "not_from_any_channel"
    /\ exitCode = 1

(***************************************************************************)
(* C8.  The process exits with code 0 exactly when the resolution          *)
(* succeeded and the command was printed (dry run) or executed with exit   *)
(* status zero; it exits with code 1 when the search is unreachable, when  *)
(* there are no candidates, when no allowed channel can be fetched, when   *)
(* no command is found, when the command is invalid, and when the executed *)
(* command does not exit with zero.                                        *)
(***************************************************************************)
Resolved ==
    /\ result # None
    /\ install_command # None
    /\ install_command[1] \in accepted

C8_ExitCodes ==
    /\ pc # "exited" => exitCode = -1
    /\ pc = "exited" =>
          /\ exitCode \in {0, 1}
          /\ exitCode = 0 <=>
                /\ Resolved
                /\ Len(surfaced) = 1
                /\ surfaced[1].command = install_command[1]
                /\ \/ dry_run /\ surfaced[1].rc = "printed"
                   \/ ~dry_run /\ surfaced[1].rc = "zero"
          /\ (Len(calls) >= 1 /\ ~calls[1].ok) => exitCode = 1
          /\ result = None => exitCode = 1
          /\ install_command = None => exitCode = 1
          /\ (install_command # None /\ install_command[1] \notin accepted) => exitCode = 1
          /\ (Len(surfaced) = 1 /\ surfaced[1].rc \in {"nonzero", "oserror"}) => exitCode = 1

C8_Witness ==
    /\ pc = "exited"
    /\ exitCode = 1
    /\ Len(surfaced) = 1
    /\ surfaced[1].rc = "nonzero"
    /\ Resolved

(***************************************************************************)
(* C9.  The run advances only forward through Searching, ChannelResolving, *)
(* Extracting, Validating and then Succeeded or Failed (the hand-off of    *)
(* the validated command lies between Validating and the end): a failure   *)
(* in any state moves directly to Failed, no state is entered again, the   *)
(* only repetition is inside web_request, and Succeeded and Failed are     *)
(* final.                                                                  *)
(***************************************************************************)
OrchState ==
    CASE pc = "main" -> "Start"
      [] InFetcher /\ caller = "search" -> "Searching"
      [] pc = "fmp_loop" \/ (InFetcher /\ caller = "probe") -> "ChannelResolving"
      [] pc = "extract" -> "Extracting"
      [] pc = "validate" -> "Validating"
      [] pc = "handoff" -> "HandingOff"
      [] pc = "exited" /\ exitCode = 0 -> "Succeeded"
      [] OTHER -> "Failed"

Rank(st) ==
    CASE st = "Start" -> 0
      [] st = "Searching" -> 1
      [] st = "ChannelResolving" -> 2
      [] st = "Extracting" -> 3
      [] st = "Validating" -> 4
      [] st = "HandingOff" -> 5
      [] OTHER -> 6

C9_ForwardOnly ==
    [][/\ \/ OrchState' = OrchState
          \/ Rank(OrchState') = Rank(OrchState) + 1
          \/ OrchState' = "Failed"
       /\ Rank(OrchState') >= Rank(OrchState)
       /\ OrchState' = "Succeeded" => OrchState = "HandingOff"
       /\ reason' # reason => OrchState' = "Failed"
       /\ OrchState \in {"Succeeded", "Failed"} => UNCHANGED vars
       /\ nGets' # nGets =>
             (OrchState' = OrchState /\ OrchState \in {"Searching", "ChannelResolving"})
       /\ (pc' = "wr_loop" /\ ~InFetcher) =>
             \/ OrchState = "Start" /\ calls = <<>>
             \/ OrchState = "ChannelResolving" /\ Len(ProbeCalls) < idx]_vars

C9_Witness ==
    /\ OrchState = "Failed"
    /\ reason = "invalid_command"
    /\ Len(calls) = 3
    /\ ~calls[2].ok

(***************************************************************************)
(* C10.  Every module page the resolver probes, and the channel it         *)
(* returns, is the trimmed text of a label the search document carried     *)
(* when it was read: no channel is made up, and the preferred channel is   *)
(* not probed when the document does not list it.                          *)
(***************************************************************************)
DocumentChannels == {Strip(module_channels[j]) : j \in 1..Len(module_channels)}

C10_NoFabricatedChannel ==
    /\ \A k \in 2..Len(calls) :
          \E c \in DocumentChannels : calls[k].url = BASE_MODULE_URL \o c \o <<"/">> \o module_name
    /\ (caller = "probe" /\ InFetcher) =>
          \E c \in DocumentChannels : url = BASE_MODULE_URL \o c \o <<"/">> \o module_name
    /\ result # None => result[1].channel \in DocumentChannels
    /\ (preferred_channel # None /\ preferred_channel[1] \notin DocumentChannels) =>
          /\ \A k \in 1..Len(calls) :
                calls[k].url # ModuleUrl(preferred_channel[1], module_name)
          /\ url # ModuleUrl(preferred_channel[1], module_name)

C10_Witness ==
    /\ preferred_channel = Some(S_conda_forge)
    /\ module_channels = <<L_main_padded>>
    /\ result # None
    /\ result[1].channel = S_main
    /\ calls[2].url = ModuleUrl(S_main, module_name)

(***************************************************************************)
(* C11.  The validated command is handed to the process execution at most  *)
(* once in a run, only when the run is not a dry run and only after the    *)
(* resolution and the validation have succeeded; a dry run never executes  *)
(* it; when the process does not exit with zero the run ends in failure,   *)
(* and neither the execution nor the resolution is tried again.            *)
(***************************************************************************)
Executions == SelectSeq(surfaced, LAMBDA e : e.how = "run")

C11_ExecutedAtMostOnce ==
    /\ Len(Executions) <= 1
    /\ Len(surfaced) <= 1
    /\ dry_run => Executions = <<>>
    /\ \A i \in 1..Len(Executions) :
          /\ ~dry_run
          /\ result # None
          /\ install_command = Some(Executions[i].command)
          /\ Executions[i].command \in accepted
          /\ Executions[i].argv = Split(Executions[i].command)
          /\ pc = "exited"
          /\ nGets = GetsUpTo(calls, Len(calls))
          /\ calls[Len(calls)].ok
          /\ Executions[i].rc # "zero" => exitCode = 1

C11_Witness ==
    /\ ~dry_run
    /\ Len(Executions) = 1
    /\ Executions[1].rc = "nonzero"
    /\ Executions[1].argv = <<S_conda, S_install, <<"-", "c">>, S_main, <<"y">>>>
    /\ pc = "exited"
    /\ exitCode = 1
    /\ reason = "install_failed"

(***************************************************************************)
(* C12.  If the search fetch fails (web_request exhausts its retries on    *)
(* the search URL), the resolver fails at once: search_module and          *)
(* fetch_module_page return None, no GET on a module page is ever made,    *)
(* and the GETs of the run are the MAX_RETRIES attempts on the search URL. *)
(***************************************************************************)
C12_SearchFailureEndsRun ==
    (Len(calls) >= 1 /\ ~calls[1].ok) =>
        /\ Len(calls) = 1
        /\ calls[1].url = BASE_SEARCH_URL \o module_name
        /\ url = calls[1].url
        /\ calls[1].gets = 3
        /\ nGets = 3
        /\ caller = "search"
        /\ result = None
        /\ module_channels = <<>>
        /\ idx = 0
        /\ pc \in {"wr_done", "exited"}
        /\ pc = "exited" => (exitCode = 1 /\ reason = "search_failed")

C12_Witness ==
    /\ pc = "exited"
    /\ Len(calls) = 1
    /\ ~calls[1].ok
    /\ nGets = 3
    /\ reason = "search_failed"
    /\ exitCode = 1

(***************************************************************************)
(* C13.  validate_install_command returns true if and only if the command, *)
(* split on whitespace, has at least 3 tokens, the first "conda" and the   *)
(* second "install": "conda install -c conda-forge numpy" is accepted;     *)
(* "pip install numpy", "conda", "conda install" and "" are rejected.      *)
(***************************************************************************)
\* the positions where a run of non-whitespace characters begins
TokenStarts(s) ==
    {i \in 1..Len(s) : s[i] \notin Whitespace /\ (i = 1 \/ s[i - 1] \in Whitespace)}

\* the run of non-whitespace characters that begins at position i
TokenAt(s, i) ==
    LET last == CHOOSE j \in i..Len(s) :
                    /\ \A k \in i..j : s[k] \notin Whitespace
                    /\ (j = Len(s) \/ s[j + 1] \in Whitespace)
    IN  SubSeq(s, i, last)

WellFormed(s) ==
    LET starts == TokenStarts(s)
    IN  /\ Cardinality(starts) >= 3
        /\ LET first == CHOOSE i \in starts : \A j \in starts : i <= j
               second == CHOOSE i \in starts \ {first} : \A j \in starts \ {first} : i <= j
           IN  TokenAt(s, first) = S_conda /\ TokenAt(s, second) = S_install

Validated == pc # "validate" /\ install_command # None

C13_ValidateStructure ==
    /\ Validated =>
          /\ install_command[1] \in accepted <=> WellFormed(install_command[1])
          /\ install_command[1] \in accepted <=> pc = "handoff"
          /\ install_command[1] \notin accepted <=>
                (pc = "exited" /\ exitCode = 1 /\ reason = "invalid_command")
    /\ (Validated /\ install_command[1] =
            Render(<<S_conda, S_install, S_dash_c, S_conda_forge, S_numpy>>, <<" ">>)) =>
          install_command[1] \in accepted
    /\ (Validated /\ install_command[1] \in
            {Render(<<S_pip, S_install, S_numpy>>, <<" ">>), S_conda,
             Render(<<S_conda, S_install>>, <<" ">>), <<>>}) =>
          install_command[1] \notin accepted

C13_Witness ==
    /\ Validated
    /\ install_command[1] = <<"\t">> \o Render(<<S_conda, S_install, S_numpy>>, <<" ", " ">>) \o <<"\n">>
    /\ install_command[1] \in accepted
    /\ pc = "handoff"

(***************************************************************************)
(* C14.  extract_install_command scans the code fragments of the page in   *)
(* document order and returns the first one whose text contains the        *)
(* literal "conda install", without its leading and trailing whitespace;   *)
(* it returns None when no fragment contains it.  For the fragments        *)
(* "pip install x", "conda install -c main y" it returns the second.       *)
(***************************************************************************)
\* " conda install -c main y\n" without the surrounding whitespace
T_main == <<"c", "o", "n", "d", "a", " ", "i", "n", "s", "t", "a", "l", "l", " ", "-", "c", " ", "m", "a", "i", "n", " ", "y">>

\* the fragments of the model in which "conda install" occurs, written out
MarkedFragments == {F_main, F_run, F_short, F_mini}

TrimmedText(f) == IF f = F_main THEN T_main ELSE f

Extracted == pc # "extract" /\ result # None

C14_FirstMarkedFragment ==
    Extracted =>
        LET code == result[1].page.code
            marked == {i \in 1..Len(code) : code[i] \in MarkedFragments}
        IN  /\ marked = {} =>
                  /\ install_command = None
                  /\ pc = "exited"
                  /\ exitCode = 1
                  /\ reason = "no_command"
            /\ marked # {} =>
                  /\ \E i \in marked :
                        /\ \A j \in marked : i <= j
                        /\ install_command = Some(TrimmedText(code[i]))
                  /\ pc = "validate"
            /\ code = <<F_pip, F_main>> => install_command = Some(T_main)

C14_Witness ==
    /\ Extracted
    /\ result[1].page.code = <<F_pip, F_main, F_run>>
    /\ install_command = Some(T_main)

(***************************************************************************)
(* C15.  Within one web_request call a sleep occurs only between a failed  *)
(* attempt i and attempt i+1 (counted from 0) and lasts exactly 2^i time   *)
(* units; attempt i+1 does not start before that sleep is over, and no     *)
(* sleep follows the final attempt.                                        *)
(***************************************************************************)
RECURSIVE PowerOfTwo(_)
PowerOfTwo(n) == IF n <= 0 THEN 1 ELSE 2 * PowerOfTwo(n - 1)

C15_BackoffBetweenAttempts ==
    /\ \A p \in 1..Len(trace) :
          /\ trace[p].ev = "sleep" =>
                /\ p > 1
                /\ trace[p - 1].ev = "get"
                /\ ~trace[p - 1].ok
                /\ trace[p - 1].attempt = trace[p].attempt
                /\ trace[p].t = PowerOfTwo(trace[p].attempt)
                /\ trace[p].attempt + 1 < retries
                /\ p < Len(trace) =>
                      (trace[p + 1].ev = "get" /\ trace[p + 1].attempt = trace[p].attempt + 1)
          /\ (trace[p].ev = "get" /\ trace[p].attempt = 0) => p = 1
          /\ (trace[p].ev = "get" /\ trace[p].attempt >= 1) =>
                /\ p > 1
                /\ trace[p - 1].ev = "sleep"
                /\ trace[p - 1].attempt = trace[p].attempt - 1
    /\ (pc = "wr_done" /\ trace # <<>>) => trace[Len(trace)].ev = "get"
    /\ (pc = "wr_loop" /\ attempt >= 1 /\ attempt < retries) =>
          (trace[Len(trace)].ev = "sleep" /\ trace[Len(trace)].attempt = attempt - 1)

C15_Witness ==
    /\ pc = "wr_done"
    /\ retries = 4
    /\ resp = None
    /\ Len(trace) = 7
    /\ trace[2].t = 1
    /\ trace[4].t = 2
    /\ trace[6].t = 4
    /\ trace[7].ev = "get"

(***************************************************************************)
(* C16.  Every kind of failure of one attempt (HTTP error status,          *)
(* transport error or timeout, any other exception) is treated alike: the  *)
(* attempts made and the delays slept depend only on which attempts        *)
(* failed, never on the kind; no kind leaves web_request as an exception   *)
(* and none ends the retries early.                                        *)
(***************************************************************************)
\* the GETs and sleeps of n failed attempts out of r, whatever made them fail
RECURSIVE FailedPrefix(_, _)
FailedPrefix(n, r) ==
    IF n <= 0 THEN <<>>
    ELSE FailedPrefix(n - 1, r)
            \o <<[ev |-> "get", attempt |-> n - 1, ok |-> FALSE, t |-> 0, got |-> None]>>
            \o (IF n < r
                THEN <<[ev |-> "sleep", attempt |-> n - 1, ok |-> FALSE,
                        t |-> PowerOfTwo(n - 1), got |-> None]>>
                ELSE <<>>)

C16_FailureKindsAlike ==
    /\ pc \in {"wr_loop", "wr_except", "wr_done"}
    /\ lastErr \in FailureKinds <=> pc = "wr_except"
    /\ lastErr \in FailureKinds \cup {"none"}
    /\ pc = "wr_loop" => trace = FailedPrefix(attempt, retries)
    /\ pc = "wr_except" =>
          /\ attempt < retries
          /\ trace = FailedPrefix(attempt, retries)
                        \o <<[ev |-> "get", attempt |-> attempt, ok |-> FALSE, t |-> 0,
                              got |-> None]>>
    /\ (pc = "wr_done" /\ resp = None) =>
          /\ attempt >= retries
          /\ trace = FailedPrefix(attempt, retries)
    /\ (pc = "wr_done" /\ resp # None) =>
          trace = FailedPrefix(attempt, retries)
                     \o <<[ev |-> "get", attempt |-> attempt, ok |-> TRUE, t |-> 0,
                           got |-> resp]>>

C16_Witness ==
    /\ pc = "wr_except"
    /\ lastErr = "Exception"
    /\ attempt = 2
    /\ retries = 4
    /\ Len(trace) = 5

(***************************************************************************)
(* C17.  For a given search document and given fetch outcomes the          *)
(* resolver does the same whatever preferred_channel is, None included:    *)
(* the labels that pass the membership test, the order of the probes and   *)
(* the (page, channel) or failure returned are those of the default list,  *)
(* so a preferred channel that comes later in the document never wins over *)
(* an earlier allowed candidate whose page can be fetched.                 *)
(***************************************************************************)
DefaultChannels == <<S_conda_forge, S_anaconda, S_main, S_auto>>

C17_PreferredChangesNothing ==
    (DocumentRead /\ module_links # 0 /\ module_channels # <<>>) =>
        /\ {channels[j] : j \in 1..Len(channels)} =
              {DefaultChannels[j] : j \in 1..Len(DefaultChannels)}
        /\ pc = "fmp_loop" =>
              UrlsOf(ProbeCalls) = ExpectedProbes(module_channels, DefaultChannels, idx - 1)
        /\ (caller = "probe" /\ pc \in {"wr_loop", "wr_except"}) =>
              Append(UrlsOf(ProbeCalls), url) =
                  ExpectedProbes(module_channels, DefaultChannels, idx)
        /\ result # None =>
              /\ UrlsOf(ProbeCalls) = ExpectedProbes(module_channels, DefaultChannels, idx)
              /\ \A k \in 1..Len(ProbeCalls) : ProbeCalls[k].ok <=> k = Len(ProbeCalls)
              /\ ModuleUrl(result[1].channel, module_name) = ProbeCalls[Len(ProbeCalls)].url
        /\ (pc = "exited" /\ result = None) =>
              /\ UrlsOf(ProbeCalls) =
                    ExpectedProbes(module_channels, DefaultChannels, Len(module_channels))
              /\ \A k \in 1..Len(ProbeCalls) : ~ProbeCalls[k].ok

C17_Witness ==
    /\ preferred_channel = Some(S_conda_forge)
    /\ module_channels = <<L_main_padded, S_conda_forge>>
    /\ result # None
    /\ result[1].channel = S_main
    /\ Len(calls) = 2
    /\ calls[2].gets = 1

(***************************************************************************)
(* C18.  Every run ends, in Succeeded or Failed, and makes at most         *)
(* MAX_RETRIES x (1 + the number of labels of the document that are in the *)
(* allowed set) GET attempts; when the document lists an allowed channel   *)
(* several times and its page cannot be fetched, the same module URL is    *)
(* probed once for each listing, with MAX_RETRIES attempts each time.      *)
(***************************************************************************)
AllowedCount ==
    Cardinality(AllowedPositions(module_channels, channels, Len(module_channels)))

AttemptsWithinBound ==
    /\ nGets <= 3 * (1 + AllowedCount)
    /\ \A k \in 1..Len(calls) : calls[k].gets <= 3
    /\ (pc = "exited" /\ reason = "not_from_preferred_channels") =>
          /\ Len(ProbeCalls) = AllowedCount
          /\ \A k \in 1..Len(ProbeCalls) : (~ProbeCalls[k].ok /\ ProbeCalls[k].gets = 3)
          /\ nGets = calls[1].gets + 3 * AllowedCount
    /\ pc = "exited" => exitCode \in {0, 1}

C18_TerminatesWithinBound == <>(pc = "exited") /\ []AttemptsWithinBound

C18_Witness ==
    /\ pc = "exited"
    /\ module_channels = <<S_conda_forge, S_conda_forge>>
    /\ reason = "not_from_preferred_channels"
    /\ Len(calls) = 3
    /\ calls[2].url = calls[3].url
    /\ calls[2].gets = 3
    /\ calls[3].gets = 3
    /\ nGets = 9

(***************************************************************************)
(* C19.  Once the resolver has returned its first fetched page, the run    *)
(* stays with that page and with its first fragment containing "conda      *)
(* install": if the page has no such fragment, or that fragment fails the  *)
(* validation (as "run conda install x" does), the run ends in failure     *)
(* (no command / invalid command); no later fragment is looked at and no   *)
(* further candidate channel is probed.                                    *)
(***************************************************************************)
RejectedFragments == {F_run, F_short}

C19_CommittedToFirstPage ==
    result # None =>
        LET code == result[1].page.code
            marked == {i \in 1..Len(code) : code[i] \in MarkedFragments}
        IN  /\ pc \in {"extract", "validate", "handoff", "exited"}
            /\ calls[Len(calls)].ok
            /\ \A k \in 1..(Len(calls) - 1) : k >= 2 => ~calls[k].ok
            /\ nGets = GetsUpTo(calls, Len(calls))
            /\ calls[Len(calls)].url = ModuleUrl(result[1].channel, module_name)
            /\ (pc # "extract" /\ marked = {}) =>
                  /\ install_command = None
                  /\ pc = "exited"
                  /\ exitCode = 1
                  /\ reason = "no_command"
                  /\ surfaced = <<>>
            /\ (pc # "extract" /\ marked # {}) =>
                  \E i \in marked :
                      /\ \A j \in marked : i <= j
                      /\ install_command = Some(TrimmedText(code[i]))
                      /\ (code[i] \in RejectedFragments /\ pc # "validate") =>
                            /\ pc = "exited"
                            /\ exitCode = 1
                            /\ reason = "invalid_command"
                            /\ accepted = {}
                            /\ surfaced = <<>>

C19_Witness ==
    /\ result # None
    /\ result[1].page.code = <<F_run, F_main>>
    /\ module_channels = <<S_conda_forge, L_main_padded>>
    /\ idx = 1
    /\ Len(calls) = 2
    /\ pc = "exited"
    /\ reason = "invalid_command"
    /\ exitCode = 1

====
